---------------------------- MODULE Spec2Model ----------------------------
(***************************************************************************)
(* QuickMail (src/quickmail-client/quickmail.go): a text area whose        *)
(* content is POSTed to an onion service through the local Tor SOCKS5      *)
(* proxy, and a helper that MIME-encodes a subject line.                   *)
(*                                                                         *)
(* Strings are sequences of byte values (Go strings are byte strings); a   *)
(* subject typed by the user is a sequence of runes, turned into bytes by  *)
(* UTF8.  Standard-library calls (mime, strings, net/http, x/net/proxy)    *)
(* are modelled by what the library does at the call site.                 *)
(***************************************************************************)
EXTENDS Integers, Sequences, FiniteSets, TLC

VARIABLES
    subject,     \* pure part: the runes typed into the subject entry
    encoded,     \* pure part: encodeMIMESubject(subject), bytes
    decoded,     \* pure part: mime.WordDecoder.DecodeHeader(encoded)
    cfgHost,     \* pure part: Config.OnionAddress
    cfgPort,     \* pure part: Config.Port
    composed,    \* pure part: the serverURL sendMail composes
    ppc,         \* pure part: which functions have been applied
    config,      \* QuickMail.config: nil, or the Config loadConfig returned
    textArea,    \* QuickMail.textArea.Text
    cursorRow,   \* QuickMail.textArea.CursorRow
    cursorColumn,\* QuickMail.textArea.CursorColumn
    clipboard,   \* the window's clipboard content
    sends,       \* how many times sendMail has been invoked
    up,          \* per sendMail invocation: its goroutine's locals and position
    wire,        \* per invocation: the HTTP request now on the connection
    dialogs      \* per invocation: the dialogs it has shown

pureVars == <<subject, encoded, decoded, cfgHost, cfgPort, composed, ppc>>
appVars == <<config, textArea, cursorRow, cursorColumn, clipboard, sends, up, wire, dialogs>>
vars == <<pureVars, appVars>>

-----------------------------------------------------------------------------
(* Go string helpers (package strings), on byte sequences.                 *)

Min(S) == CHOOSE x \in S : \A y \in S : x <= y

\* s[i:j] and s[i:] with Go's 0-based offsets
Slice(s, i, j) == SubSeq(s, i + 1, j)
From(s, i) == SubSeq(s, i + 1, Len(s))

HasPrefix(s, p) == Len(s) >= Len(p) /\ SubSeq(s, 1, Len(p)) = p
HasSuffix(s, p) == Len(s) >= Len(p) /\ SubSeq(s, Len(s) - Len(p) + 1, Len(s)) = p

\* strings.Index: offset of the first occurrence of sep in s, or -1
Index(s, sep) ==
    LET hits == {i \in 0..(Len(s) - Len(sep)) : Slice(s, i, i + Len(sep)) = sep}
    IN  IF hits = {} THEN -1 ELSE Min(hits)

Contains(s, sep) == Index(s, sep) >= 0

\* strings.Split(s, sep) for a non-empty sep: the pieces between the
\* non-overlapping occurrences of sep, found left to right
RECURSIVE Split(_, _)
Split(s, sep) ==
    LET i == Index(s, sep)
    IN  IF i < 0 THEN <<s>>
        ELSE <<Slice(s, 0, i)>> \o Split(From(s, i + Len(sep)), sep)

\* strings.TrimSuffix
TrimSuffix(s, suffix) ==
    IF HasSuffix(s, suffix) THEN Slice(s, 0, Len(s) - Len(suffix)) ELSE s

RECURSIVE Rep(_, _)
Rep(x, n) == IF n = 0 THEN <<>> ELSE <<x>> \o Rep(x, n - 1)

RECURSIVE SeqsUpTo(_, _)
SeqsUpTo(S, n) ==
    IF n = 0 THEN {<<>>}
    ELSE LET shorter == SeqsUpTo(S, n - 1)
         IN  shorter \cup {Append(q, x) : q \in {t \in shorter : Len(t) = n - 1}, x \in S}

RECURSIVE Concat(_)
Concat(ss) == IF ss = <<>> THEN <<>> ELSE Head(ss) \o Concat(Tail(ss))

-----------------------------------------------------------------------------
(* Byte strings the program and the library write.                         *)

CloseMarker == <<63, 61>>                                \* "?="
OpenMarker  == <<61, 63>>                                \* "=?"
NL          == <<10>>                                    \* "\n"
SchemeHTTP  == <<104, 116, 116, 112, 58, 47, 47>>        \* "http://"
SchemeHTTPS == <<104, 116, 116, 112, 115, 58, 47, 47>>   \* "https://"
UploadPath  == <<47, 117, 112, 108, 111, 97, 100>>       \* "/upload"
Colon       == <<58>>                                    \* ":"
CharsetUTF8 == <<85, 84, 70, 45, 56>>                    \* "UTF-8"

-----------------------------------------------------------------------------
(* UTF-8 and base64 (unicode/utf8, encoding/base64).                       *)

\* the UTF-8 bytes of one rune below U+10000
UTF8(r) ==
    IF r < 128 THEN <<r>>
    ELSE IF r < 2048 THEN <<192 + (r \div 64), 128 + (r % 64)>>
    ELSE <<224 + (r \div 4096), 128 + ((r \div 64) % 64), 128 + (r % 64)>>

RECURSIVE Bytes(_)
Bytes(runes) == IF runes = <<>> THEN <<>> ELSE UTF8(Head(runes)) \o Bytes(Tail(runes))

\* base64.StdEncoding's alphabet
B64Char(v) ==
    IF v < 26 THEN 65 + v
    ELSE IF v < 52 THEN 97 + (v - 26)
    ELSE IF v < 62 THEN 48 + (v - 52)
    ELSE IF v = 62 THEN 43 ELSE 47

B64Value(c) ==
    IF c >= 65 /\ c <= 90 THEN c - 65
    ELSE IF c >= 97 /\ c <= 122 THEN c - 97 + 26
    ELSE IF c >= 48 /\ c <= 57 THEN c - 48 + 52
    ELSE IF c = 43 THEN 62
    ELSE IF c = 47 THEN 63 ELSE -1

\* base64.StdEncoding.EncodedLen
EncodedLen(n) == ((n + 2) \div 3) * 4

\* what a base64 encoder has written once it is closed: padded quanta
RECURSIVE Base64Encode(_)
Base64Encode(bs) ==
    IF Len(bs) = 0 THEN <<>>
    ELSE IF Len(bs) = 1 THEN
        <<B64Char(bs[1] \div 4), B64Char((bs[1] % 4) * 16), 61, 61>>
    ELSE IF Len(bs) = 2 THEN
        <<B64Char(bs[1] \div 4), B64Char((bs[1] % 4) * 16 + (bs[2] \div 16)),
          B64Char((bs[2] % 16) * 4), 61>>
    ELSE
        <<B64Char(bs[1] \div 4), B64Char((bs[1] % 4) * 16 + (bs[2] \div 16)),
          B64Char((bs[2] % 16) * 4 + (bs[3] \div 64)), B64Char(bs[3] % 64)>>
        \o Base64Encode(From(bs, 3))

\* base64.StdEncoding.DecodeString on 4-character quanta: padding only in
\* the last quantum, every other character in the alphabet
RECURSIVE B64Quanta(_)
B64Quanta(t) ==
    IF Len(t) = 0 THEN [ok |-> TRUE, bytes |-> <<>>]
    ELSE
        LET v1 == B64Value(t[1])
            v2 == B64Value(t[2])
            v3 == B64Value(t[3])
            v4 == B64Value(t[4])
            b1 == v1 * 4 + (v2 \div 16)
            b2 == (v2 % 16) * 16 + (v3 \div 4)
            b3 == (v3 % 4) * 64 + v4
            bad == [ok |-> FALSE, bytes |-> <<>>]
        IN  IF v1 < 0 \/ v2 < 0 THEN bad
            ELSE IF Len(t) = 4 /\ t[3] = 61 /\ t[4] = 61 THEN [ok |-> TRUE, bytes |-> <<b1>>]
            ELSE IF v3 < 0 THEN bad
            ELSE IF Len(t) = 4 /\ t[4] = 61 THEN [ok |-> TRUE, bytes |-> <<b1, b2>>]
            ELSE IF v4 < 0 THEN bad
            ELSE LET rest == B64Quanta(From(t, 4))
                 IN  IF rest.ok THEN [ok |-> TRUE, bytes |-> <<b1, b2, b3>> \o rest.bytes]
                     ELSE bad

\* base64.StdEncoding.DecodeString: CR and LF are skipped
Base64Decode(text) ==
    LET t == SelectSeq(text, LAMBDA c : c \notin {10, 13})
    IN  IF Len(t) % 4 # 0 THEN [ok |-> FALSE, bytes |-> <<>>] ELSE B64Quanta(t)

-----------------------------------------------------------------------------
(* mime.BEncoding.Encode("UTF-8", s) (mime/encodedword.go), as called at   *)
(* line 70.  s is given as its runes.                                      *)

maxEncodedWordLen == 75
\* maxEncodedWordLen - len("=?UTF-8?q?") - len("?=")
maxContentLen == maxEncodedWordLen - 10 - 2
\* base64.StdEncoding.DecodedLen(maxContentLen)
maxBase64Len == (maxContentLen \div 4) * 3

\* mime.needsEncoding: some rune is outside printable ASCII and is not a tab
needsEncoding(runes) ==
    \E i \in 1..Len(runes) :
        (runes[i] < 32 \/ runes[i] > 126) /\ runes[i] # 9

\* WordEncoder.openWord for BEncoding: "=?" charset "?b?"
openWord(charset) == OpenMarker \o charset \o <<63, 98, 63>>

\* WordEncoder.bEncode's loop: the runes of each encoded-word; a rune is
\* never split, a word's content never exceeds maxBase64Len bytes
RECURSIVE bEncodeWords(_, _, _)
bEncodeWords(rs, cur, currentLen) ==
    IF rs = <<>> THEN <<cur>>
    ELSE
        LET runeLen == Len(UTF8(Head(rs)))
        IN  IF currentLen + runeLen <= maxBase64Len
            THEN bEncodeWords(Tail(rs), Append(cur, Head(rs)), currentLen + runeLen)
            ELSE <<cur>> \o bEncodeWords(Tail(rs), <<Head(rs)>>, runeLen)

\* WordEncoder.encodeWord with bEncode: one word when the base64 text
\* fits, else the words joined by splitWord's "?= " and a fresh openWord
encodeWord(charset, runes) ==
    LET words == IF EncodedLen(Len(Bytes(runes))) <= maxContentLen
                 THEN <<runes>>
                 ELSE bEncodeWords(runes, <<>>, 0)
        body[i \in 1..Len(words)] ==
            (IF i = 1 THEN <<>> ELSE CloseMarker \o <<32>> \o openWord(charset))
            \o Base64Encode(Bytes(words[i]))
    IN  openWord(charset) \o Concat(body) \o CloseMarker

BEncodeAlways(charset, runes) == encodeWord(charset, runes)

\* WordEncoder.Encode: the input itself unless needsEncoding
BEncode(charset, runes) ==
    IF ~needsEncoding(runes) THEN Bytes(runes) ELSE encodeWord(charset, runes)

-----------------------------------------------------------------------------
(* encodeMIMESubject, lines 64-88.                                         *)

FoldPartsNoMarker(parts) ==
    Concat([i \in 1..(Len(parts) - 1) |-> parts[i] \o NL]) \o parts[Len(parts)]

\* lines 78-85: every part but the last gets "?=\n" back, the last is appended
FoldParts(parts) ==
    Concat([i \in 1..(Len(parts) - 1) |-> parts[i] \o CloseMarker \o NL])
    \o parts[Len(parts)]

encodeMIMESubject(input) ==
    IF input = <<>> THEN <<>>
    ELSE
        LET enc == BEncode(CharsetUTF8, input)
            parts == Split(enc, CloseMarker)
        IN  IF Len(parts) <= 1 THEN enc
            ELSE TrimSuffix(FoldParts(parts), NL)

-----------------------------------------------------------------------------
(* The standard decoder the round trip is measured with:                   *)
(* mime.WordDecoder.DecodeHeader (mime/encodedword.go), no CharsetReader.  *)

Failed == [ok |-> FALSE, bytes |-> <<>>]

ToLower(c) == IF c >= 65 /\ c <= 90 THEN c + 32 ELSE c
\* strings.EqualFold on ASCII names
EqualFold(a, b) ==
    Len(a) = Len(b) /\ \A i \in 1..Len(a) : ToLower(a[i]) = ToLower(b[i])

\* mime.fromHex
fromHex(c) ==
    IF c >= 48 /\ c <= 57 THEN c - 48
    ELSE IF c >= 65 /\ c <= 70 THEN c - 65 + 10
    ELSE IF c >= 97 /\ c <= 102 THEN c - 97 + 10
    ELSE -1

\* mime.qDecode
RECURSIVE qDecode(_)
qDecode(s) ==
    IF Len(s) = 0 THEN [ok |-> TRUE, bytes |-> <<>>]
    ELSE
        LET c == s[1]
            one(b, n) == LET rest == qDecode(From(s, n))
                         IN  IF rest.ok THEN [ok |-> TRUE, bytes |-> <<b>> \o rest.bytes]
                             ELSE Failed
        IN  IF c = 95 THEN one(32, 1)
            ELSE IF c = 61 THEN
                IF Len(s) < 3 \/ fromHex(s[2]) < 0 \/ fromHex(s[3]) < 0 THEN Failed
                ELSE one(fromHex(s[2]) * 16 + fromHex(s[3]), 3)
            ELSE IF (c <= 126 /\ c >= 32) \/ c \in {10, 13, 9} THEN one(c, 1)
            ELSE Failed

\* mime.decode: by the encoding letter
decode(encoding, text) ==
    IF encoding \in {66, 98} THEN Base64Decode(text)
    ELSE IF encoding \in {81, 113} THEN qDecode(text)
    ELSE Failed

\* WordDecoder.convert without a CharsetReader
convert(charset, content) ==
    IF EqualFold(<<117, 116, 102, 45, 56>>, charset) THEN [ok |-> TRUE, bytes |-> content]
    ELSE IF EqualFold(<<105, 115, 111, 45, 56, 56, 53, 57, 45, 49>>, charset)
        THEN [ok |-> TRUE, bytes |-> Bytes(content)]
    ELSE IF EqualFold(<<117, 115, 45, 97, 115, 99, 105, 105>>, charset)
        THEN [ok |-> TRUE,
              bytes |-> Concat([i \in 1..Len(content) |->
                          IF content[i] >= 128 THEN UTF8(65533) ELSE <<content[i]>>])]
    ELSE Failed

\* mime.hasNonWhitespace
hasNonWhitespace(s) == \E i \in 1..Len(s) : s[i] \notin {32, 9, 10, 13}

\* the loop of DecodeHeader: buf is what has been written, header what is
\* left to scan
RECURSIVE DecodeLoop(_, _, _)
DecodeLoop(buf, header, betweenWords) ==
    LET finish == [ok |-> TRUE, bytes |-> buf \o header]
        start == Index(header, OpenMarker)
        cur1 == start + 2
        i == Index(From(header, cur1), <<63>>)
        charset == Slice(header, cur1, cur1 + i)
        cur2 == cur1 + i + 1
        encoding == header[cur2 + 1]
        cur3 == cur2 + 1
        cur4 == cur3 + 1
        j == Index(From(header, cur4), CloseMarker)
        text == Slice(header, cur4, cur4 + j)
        end == cur4 + j + 2
        content == decode(encoding, text)
        before == IF start > 0 /\ (~betweenWords \/ hasNonWhitespace(Slice(header, 0, start)))
                  THEN Slice(header, 0, start) ELSE <<>>
        conv == convert(charset, content.bytes)
    IN  IF start = -1 THEN finish
        ELSE IF i = -1 THEN finish
        ELSE IF Len(header) < cur2 + 4 THEN finish
        ELSE IF header[cur3 + 1] # 63 THEN finish
        ELSE IF j = -1 THEN finish
        ELSE IF ~content.ok
            THEN DecodeLoop(buf \o Slice(header, 0, start + 2), From(header, start + 2), FALSE)
        ELSE IF ~conv.ok THEN Failed
        ELSE DecodeLoop(buf \o before \o conv.bytes, From(header, end), TRUE)

DecodeHeader(header) ==
    LET i == Index(header, OpenMarker)
    IN  IF i = -1 THEN [ok |-> TRUE, bytes |-> header]
        ELSE DecodeLoop(Slice(header, 0, i), From(header, i), FALSE)

-----------------------------------------------------------------------------
(* sendMail's destination, lines 103-111.                                  *)

ServerURLAlwaysScheme(host, port) ==
    SchemeHTTP \o host \o (IF port # <<>> THEN Colon \o port ELSE <<>>) \o UploadPath

ServerURL(host, port) ==
    LET withPort == IF port # <<>> THEN host \o Colon \o port ELSE host
        serverAddress ==
            IF ~HasPrefix(withPort, SchemeHTTP) /\ ~HasPrefix(withPort, SchemeHTTPS)
            THEN SchemeHTTP \o withPort ELSE withPort
    IN  serverAddress \o UploadPath

-----------------------------------------------------------------------------
(* The pure functions applied to bounded inputs.                           *)

MaxSubjectLen == 3

\* a, ?, =, tab, e-acute
SubjectRunes == {97, 63, 61, 9, 233}

\* subjects around the encoder's 45-byte word limit: a run of one rune
\* (a, e-acute, or the three-byte U+4E2D) after a short prefix
LongSubjects ==
    {pre \o Rep(r, n) : pre \in {<<>>, <<97>>, <<63, 61>>},
                        r \in {97, 233, 20013},
                        n \in {15, 16, 22, 23, 46}}

Subjects == SeqsUpTo(SubjectRunes, MaxSubjectLen) \cup LongSubjects

HostName == <<104, 46, 111, 110, 105, 111, 110>>    \* "h.onion"
Hosts ==
    {<<>>, HostName, SchemeHTTP \o HostName, SchemeHTTPS \o HostName,
     SchemeHTTP, SchemeHTTPS,
     <<104, 116, 116, 112, 58, 47>> \o HostName,        \* "http:/h.onion"
     <<72, 84, 84, 80, 58, 47, 47>> \o HostName,        \* "HTTP://h.onion"
     <<104, 116, 116, 112>>,                            \* "http"
     <<104, 116, 116, 112, 115>>}                       \* "https"
Ports == {<<>>, <<56, 48>>, <<47, 47>>}                 \* "", "80", "//"


-----------------------------------------------------------------------------
(* The application: state after main() has built the window.               *)

MaxSends == 2
MaxTextLen == 17
MaxServerRedirects == 1

Ids == 1..MaxSends

\* strings.TrimSpace on ASCII text: \t \n \v \f \r and space
IsSpace(c) == c \in {9, 10, 11, 12, 13, 32}
RECURSIVE TrimLeft(_)
TrimLeft(s) == IF s # <<>> /\ IsSpace(Head(s)) THEN TrimLeft(Tail(s)) ELSE s
RECURSIVE TrimRight(_)
TrimRight(s) ==
    IF s # <<>> /\ IsSpace(s[Len(s)]) THEN TrimRight(Slice(s, 0, Len(s) - 1)) ELSE s
TrimSpace(s) == TrimRight(TrimLeft(s))

\* what loadConfig can leave in q.config (lines 279-288): nil on any error
NilConfig == [loaded |-> FALSE, OnionAddress |-> <<>>, Port |-> <<>>]
Configs ==
    {NilConfig,
     [loaded |-> TRUE, OnionAddress |-> HostName, Port |-> <<56, 48>>],
     [loaded |-> TRUE, OnionAddress |-> <<104, 32, 112>>, Port |-> <<>>]}   \* "h p"

\* what the user types into the text area
Texts == {<<32, 10>>, <<97, 98>>}       \* " \n", "ab"
\* what the user types into the subject dialog
DialogSubjects == {<<233>>}

\* the response bodies and final statuses a server sends; a 307 with a
\* Location header is what makes the client follow a redirect
ResponseBodies == {<<110, 111>>}       \* "no"
Statuses == {200, 201, 500}
StatusOK == 200
\* net/http's defaultCheckRedirect: "stopped after 10 redirects"
maxRedirects == 10

NoErr == [kind |-> "nil", status |-> 0, body |-> <<>>]
\* "can't connect to Tor proxy: %w" (line 131)
ErrProxy == [kind |-> "proxy", status |-> 0, body |-> <<>>]
\* "failed to create request: %w" (line 144)
ErrRequest == [kind |-> "request", status |-> 0, body |-> <<>>]
\* "failed to send request: %w" (line 151)
ErrSend == [kind |-> "send", status |-> 0, body |-> <<>>]
\* "unexpected status: %s, body: %s" (line 158)
ErrStatus(status, body) == [kind |-> "status", status |-> status, body |-> body]

NoRequest == [method |-> "", url |-> <<>>, body |-> <<>>, contentType |-> "", via |-> ""]

Idle ==
    [pc |-> "idle", serverURL |-> <<>>, message |-> <<>>, dialer |-> "none",
     request |-> NoRequest, sent |-> 0, status |-> 0, serverBody |-> <<>>,
     responseBody |-> <<>>, readErr |-> FALSE, err |-> NoErr, timedOut |-> FALSE]

\* the cursor after the text s has been typed or set up to its end
EndRow(s) == Len(Split(s, NL)) - 1
EndColumn(s) == Len(Split(s, NL)[Len(Split(s, NL))])

\* the window as main() shows it (lines 274-350), but for q.config
AppStart ==
    /\ textArea = <<>>
    /\ cursorRow = 0
    /\ cursorColumn = 0
    /\ clipboard = <<120>>      \* whatever was copied before: "x"
    /\ sends = 0
    /\ up = [i \in Ids |-> Idle]
    /\ wire = [i \in Ids |-> <<>>]
    /\ dialogs = [i \in Ids |-> <<>>]

\* showError / showSuccess (lines 200-207): one information dialog
ErrorDialog(message) == [title |-> "Error", message |-> message]
SuccessDialog(message) == [title |-> "Success", message |-> message]

-----------------------------------------------------------------------------
(* The user interface.                                                     *)

\* the user replaces the text of the text area
typeText(t) ==
    /\ t # textArea
    /\ textArea' = t
    /\ cursorRow' = EndRow(t)
    /\ cursorColumn' = EndColumn(t)
    /\ UNCHANGED <<pureVars, config, clipboard, sends, up, wire, dialogs>>

\* clearContent (lines 179-185); Entry.SetText("") leaves the cursor at 0,0
clearContent ==
    /\ textArea' = <<>>
    /\ cursorRow' = 0
    /\ cursorColumn' = 0
    /\ clipboard' = <<>>
    /\ UNCHANGED <<pureVars, config, sends, up, wire, dialogs>>

\* lines 234-253: the byte offset of the cursor in currentText
RECURSIVE RowsBefore(_, _)
RowsBefore(lines, row) ==
    IF row = 0 THEN 0
    ELSE RowsBefore(lines, row - 1)
         + (IF row - 1 < Len(lines) THEN Len(lines[row]) + 1 ELSE 0)

ActualPos(currentText, row, cursorPos) ==
    LET lines == Split(currentText, NL)
    IN  IF row < Len(lines)
        THEN RowsBefore(lines, row)
             + (IF cursorPos > Len(lines[row + 1]) THEN Len(lines[row + 1]) ELSE cursorPos)
        ELSE Len(currentText)

\* the callback of showSubjectDialog (lines 221-266), confirmed with a
\* non-empty subject
subjectConfirmed(s) ==
    LET encodedSubject == encodeMIMESubject(s) \o NL
        actualPos == ActualPos(textArea, cursorRow, cursorColumn)
        newText == Slice(textArea, 0, actualPos) \o encodedSubject \o From(textArea, actualPos)
        newCursorPos == actualPos + Len(encodedSubject)
        newLines == Split(Slice(newText, 0, newCursorPos), NL)
    IN  /\ s # <<>>
        /\ Len(newText) <= MaxTextLen
        /\ textArea' = newText
        /\ cursorRow' = Len(newLines) - 1
        /\ cursorColumn' = Len(newLines[Len(newLines)])
        /\ UNCHANGED <<pureVars, config, clipboard, sends, up, wire, dialogs>>

-----------------------------------------------------------------------------
(* sendMail (lines 91-121), run by the Send button.                        *)

sendMail ==
    /\ sends < MaxSends
    /\ sends' = sends + 1
    /\ LET i == sends + 1
           message == textArea
       IN  IF ~config.loaded THEN
               /\ dialogs' = [dialogs EXCEPT ![i] = Append(@, ErrorDialog("Configuration not loaded"))]
               /\ up' = [up EXCEPT ![i].pc = "done"]
           ELSE IF TrimSpace(message) = <<>> THEN
               /\ dialogs' = [dialogs EXCEPT ![i] = Append(@, ErrorDialog("Message is empty"))]
               /\ up' = [up EXCEPT ![i].pc = "done"]
           ELSE
               /\ up' = [up EXCEPT ![i] =
                            [@ EXCEPT !.pc = "spawned",
                                      !.serverURL = ServerURL(config.OnionAddress, config.Port),
                                      !.message = message]]
               /\ UNCHANGED dialogs
    /\ UNCHANGED <<pureVars, config, textArea, cursorRow, cursorColumn, clipboard, wire>>

-----------------------------------------------------------------------------
(* uploadMessage (lines 124-165) and the goroutine of lines 113-120, one   *)
(* step per call that waits on the proxy, the network or the scheduler.    *)
(* Once uploadMessage has returned, only its result is kept: message,      *)
(* serverURL and the request are dead.  timedOut records that the          *)
(* client's 30 s Timeout ran out during the call.                          *)

\* url.Parse inside http.NewRequest rejects a control byte anywhere and a
\* space in the host; every configured string here lands in the host
NewRequestFails(url) == \E k \in 1..Len(url) : url[k] < 32 \/ url[k] = 127 \/ url[k] = 32

RequestBodyFromTextArea(message, text) == text

\* lines 127 and 142: the body is the bytes of the message parameter
RequestBody(message, text) == message

TransportDialDirect(dialer) == "direct"

\* lines 134-136: the transport dials through the SOCKS5 dialer only
TransportDial(dialer) == dialer

StatusAccepted2xx(status) == status >= 200 /\ status <= 299

\* line 157: the status that counts as sent
StatusAccepted(status) == status = StatusOK

\* lines 157-164: the error uploadMessage returns for a response
ResponseErr(status, responseBody) ==
    IF ~StatusAccepted(status) THEN ErrStatus(status, responseBody) ELSE NoErr

\* lines 125-147: proxy.SOCKS5, the client, http.NewRequest, the header
uploadStart(i) ==
    /\ up[i].pc = "spawned"
    /\ \/ /\ up' = [up EXCEPT ![i] = [@ EXCEPT !.dialer = "failed", !.err = ErrProxy,
                                               !.message = <<>>, !.serverURL = <<>>,
                                               !.pc = "returned"]]
       \/ /\ NewRequestFails(up[i].serverURL)
          /\ up' = [up EXCEPT ![i] = [@ EXCEPT !.dialer = "socks5", !.err = ErrRequest,
                                               !.message = <<>>, !.serverURL = <<>>,
                                               !.pc = "returned"]]
       \/ /\ ~NewRequestFails(up[i].serverURL)
          /\ up' = [up EXCEPT ![i] =
                       [@ EXCEPT !.dialer = "socks5",
                                 !.request = [method |-> "POST",
                                              url |-> up[i].serverURL,
                                              body |-> RequestBody(up[i].message, textArea),
                                              contentType |-> "application/octet-stream",
                                              via |-> ""],
                                 !.pc = "do"]]
    /\ UNCHANGED <<pureVars, config, textArea, cursorRow, cursorColumn, clipboard, sends, wire, dialogs>>

\* client.Do (line 149): the request is written to a connection the
\* transport dialed
doSend(i) ==
    /\ up[i].pc = "do"
    /\ wire' = [wire EXCEPT ![i] = <<[up[i].request EXCEPT !.via = TransportDial(up[i].dialer)]>>]
    /\ up' = [up EXCEPT ![i] = [@ EXCEPT !.sent = @ + 1, !.pc = "await"]]
    /\ UNCHANGED <<pureVars, config, textArea, cursorRow, cursorColumn, clipboard, sends, dialogs>>

\* client.Do returns an error: the proxy or the connection failed
doFail(i) ==
    /\ up[i].pc \in {"do", "await"}
    /\ wire' = [wire EXCEPT ![i] = <<>>]
    /\ up' = [up EXCEPT ![i] = [@ EXCEPT !.err = ErrSend, !.message = <<>>,
                                         !.serverURL = <<>>, !.request = NoRequest,
                                         !.pc = "returned"]]
    /\ UNCHANGED <<pureVars, config, textArea, cursorRow, cursorColumn, clipboard, sends, dialogs>>

\* client.Do returns an error: the client's 30 s Timeout (line 139) ran
\* out while connecting, sending or waiting for the response headers
doTimeout(i) ==
    /\ up[i].pc \in {"do", "await"}
    /\ wire' = [wire EXCEPT ![i] = <<>>]
    /\ up' = [up EXCEPT ![i] = [@ EXCEPT !.err = ErrSend, !.timedOut = TRUE,
                                         !.message = <<>>, !.serverURL = <<>>,
                                         !.request = NoRequest, !.pc = "returned"]]
    /\ UNCHANGED <<pureVars, config, textArea, cursorRow, cursorColumn, clipboard, sends, dialogs>>

\* the server answers 307 with a Location: client.Do (default
\* CheckRedirect, request with GetBody) sends the request again
serverRedirects(i) ==
    /\ up[i].pc = "await"
    /\ up[i].sent <= MaxServerRedirects
    /\ wire' = [wire EXCEPT ![i] = <<>>]
    /\ up' = [up EXCEPT ![i] =
                 IF up[i].sent >= maxRedirects
                 THEN [@ EXCEPT !.err = ErrSend, !.message = <<>>, !.serverURL = <<>>,
                                !.request = NoRequest, !.pc = "returned"]
                 ELSE [@ EXCEPT !.pc = "do"]]
    /\ UNCHANGED <<pureVars, config, textArea, cursorRow, cursorColumn, clipboard, sends, dialogs>>

\* the response headers arrive, client.Do returns the response, and
\* io.ReadAll reads the whole body (line 155); then the status check
\* (lines 157-164)
serverResponds(i, status, body) ==
    /\ up[i].pc = "await"
    /\ wire' = [wire EXCEPT ![i] = <<>>]
    /\ up' = [up EXCEPT ![i] =
                 [@ EXCEPT !.status = status, !.serverBody = body,
                           !.responseBody = body,
                           !.err = ResponseErr(status, body),
                           !.message = <<>>, !.serverURL = <<>>, !.request = NoRequest,
                           !.pc = "returned"]]
    /\ UNCHANGED <<pureVars, config, textArea, cursorRow, cursorColumn, clipboard, sends, dialogs>>

\* the response headers arrive and client.Do returns the response, but
\* the client's Timeout runs out while io.ReadAll reads the body: ReadAll
\* returns the n bytes it has and an error, which line 155 discards; then
\* the status check (lines 157-164)
serverStalls(i, status, body, n) ==
    /\ up[i].pc = "await"
    /\ n < Len(body)
    /\ wire' = [wire EXCEPT ![i] = <<>>]
    /\ up' = [up EXCEPT ![i] =
                 [@ EXCEPT !.status = status, !.serverBody = body,
                           !.responseBody = Slice(body, 0, n),
                           !.readErr = TRUE,
                           !.timedOut = TRUE,
                           !.err = ResponseErr(status, Slice(body, 0, n)),
                           !.message = <<>>, !.serverURL = <<>>, !.request = NoRequest,
                           !.pc = "returned"]]
    /\ UNCHANGED <<pureVars, config, textArea, cursorRow, cursorColumn, clipboard, sends, dialogs>>

NotificationsBoth(err) ==
    IF err # NoErr
    THEN <<ErrorDialog(<<"Send error", err>>), SuccessDialog("Message sent successfully!")>>
    ELSE <<SuccessDialog("Message sent successfully!")>>

\* lines 115-119: the dialogs the goroutine shows for uploadMessage's result
Notifications(err) ==
    IF err # NoErr
    THEN <<ErrorDialog(<<"Send error", err>>)>>
    ELSE <<SuccessDialog("Message sent successfully!")>>

\* lines 115-119, after which the goroutine ends and its locals are gone
notify(i) ==
    /\ up[i].pc = "returned"
    /\ dialogs' = [dialogs EXCEPT ![i] = @ \o Notifications(up[i].err)]
    /\ up' = [up EXCEPT ![i] = [Idle EXCEPT !.pc = "done"]]
    /\ UNCHANGED <<pureVars, config, textArea, cursorRow, cursorColumn, clipboard, sends, wire>>

-----------------------------------------------------------------------------

\* no header decoded yet
NoValue == [ok |-> FALSE, bytes |-> <<>>, none |-> TRUE]

\* the pure part is not in use
PureIdle ==
    /\ subject = <<>>
    /\ encoded = <<>>
    /\ decoded = NoValue
    /\ cfgHost = <<>>
    /\ cfgPort = <<>>
    /\ composed = <<>>
    /\ ppc = "app"

Init == PureIdle /\ config \in Configs /\ AppStart

Next ==
    \/ \E t \in Texts : typeText(t)
    \/ clearContent
    \/ \E s \in DialogSubjects : subjectConfirmed(s)
    \/ sendMail
    \/ \E i \in Ids : uploadStart(i)
    \/ \E i \in Ids : doSend(i)
    \/ \E i \in Ids : doFail(i)
    \/ \E i \in Ids : doTimeout(i)
    \/ \E i \in Ids : serverRedirects(i)
    \/ \E i \in Ids, status \in Statuses, body \in ResponseBodies : serverResponds(i, status, body)
    \/ \E i \in Ids, status \in Statuses, body \in ResponseBodies :
           \E n \in 0..(Len(body) - 1) : serverStalls(i, status, body, n)
    \/ \E i \in Ids : notify(i)

Spec == Init /\ [][Next]_vars

\* the Go scheduler runs a runnable goroutine: once uploadMessage has
\* returned, lines 115-119 are executed
FairSpec == Spec /\ \A i \in Ids : WF_vars(notify(i))

PureInit ==
    /\ config = NilConfig
    /\ AppStart
    /\ encoded = <<>>
    /\ decoded = NoValue
    /\ composed = <<>>
    /\ \/ /\ ppc = "subject"
          /\ subject \in Subjects
          /\ cfgHost = <<>>
          /\ cfgPort = <<>>
       \/ /\ ppc = "config"
          /\ subject = <<>>
          /\ cfgHost \in Hosts
          /\ cfgPort \in Ports

\* the call of encodeMIMESubject (line 223)
EncodeStep ==
    /\ ppc = "subject"
    /\ encoded' = encodeMIMESubject(subject)
    /\ ppc' = "encoded"
    /\ UNCHANGED <<appVars, subject, decoded, cfgHost, cfgPort, composed>>

\* a mail reader decoding the header value
DecodeStep ==
    /\ ppc = "encoded"
    /\ decoded' = DecodeHeader(encoded)
    /\ ppc' = "decoded"
    /\ UNCHANGED <<appVars, subject, encoded, cfgHost, cfgPort, composed>>

\* sendMail composing serverURL (lines 103-111)
ComposeStep ==
    /\ ppc = "config"
    /\ composed' = ServerURL(cfgHost, cfgPort)
    /\ ppc' = "composed"
    /\ UNCHANGED <<appVars, subject, encoded, decoded, cfgHost, cfgPort>>

PureNext == EncodeStep \/ DecodeStep \/ ComposeStep

PureSpec == PureInit /\ [][PureNext]_vars

-----------------------------------------------------------------------------
(* Properties.                                                             *)

InFlight == {"spawned", "do", "await"}

\* C1: every sendMail invocation shows exactly one dialog: none before it
\* has finished, one once it has, an error dialog exactly when the upload
\* returned an error; and once uploadMessage has returned, the dialog is
\* eventually shown.
C1_NotifiedExactlyOnce ==
    /\ [](\A i \in Ids :
            /\ Len(dialogs[i]) <= 1
            /\ (up[i].pc = "done") <=> (Len(dialogs[i]) = 1)
            /\ (i > sends) => (up[i].pc = "idle"))
    /\ [][\A i \in Ids :
            (up[i].pc = "returned" /\ up'[i].pc = "done") =>
                /\ Len(dialogs'[i]) = 1
                /\ (dialogs'[i][1].title = "Success") <=> (up[i].err.kind = "nil")
                /\ (dialogs'[i][1].title = "Error") <=> (up[i].err.kind # "nil")]_vars
    /\ \A i \in Ids : (up[i].pc = "returned") ~> (Len(dialogs[i]) = 1)

C1_Witness ==
    \E i, j \in Ids :
        /\ up[i].pc = "done" /\ dialogs[i] = <<SuccessDialog("Message sent successfully!")>>
        /\ up[j].pc = "done" /\ dialogs[j] = <<ErrorDialog("Message is empty")>>

\* C2: a call whose SOCKS5 dialer could not be built returns the proxy
\* error without ever writing a request, and every request on a connection
\* was dialed through the SOCKS5 dialer.
C2_ProxyOnly ==
    \A i \in Ids :
        /\ (up[i].dialer = "failed") =>
              (up[i].err = ErrProxy /\ up[i].sent = 0 /\ wire[i] = <<>> /\ up[i].pc = "returned")
        /\ \A k \in 1..Len(wire[i]) : wire[i][k].via = "socks5"

C2_Witness ==
    \E i, j \in Ids : up[i].dialer = "failed" /\ wire[j] # <<>>

\* C3 (as claimed): a call whose 30 s timeout ran out returns the
\* transport failure, never success and never another error.
C3_TimeoutIsTransportFailure ==
    \A i \in Ids : (up[i].pc = "returned" /\ up[i].timedOut) => up[i].err = ErrSend

\* C4: with a response received, uploadMessage returns nil exactly for
\* status 200; for any other status it returns the status error carrying
\* that status and the body text ReadAll returned, which is the server's
\* whole body unless the read was cut short.
C4_SuccessIff200 ==
    \A i \in Ids :
        (up[i].pc = "returned" /\ up[i].status # 0) =>
            /\ (up[i].err = NoErr) <=> (up[i].status = 200)
            /\ (up[i].status # 200) =>
                  /\ up[i].err.kind = "status"
                  /\ up[i].err.status = up[i].status
                  /\ up[i].err.body = up[i].responseBody
                  /\ ~up[i].readErr => up[i].err.body = up[i].serverBody

C4_Witness ==
    \E i, j \in Ids :
        /\ up[i].pc = "returned" /\ up[i].status = 201
        /\ up[i].err = ErrStatus(201, <<110, 111>>)
        /\ up[j].pc = "returned" /\ up[j].status = 200 /\ up[j].err = NoErr

\* C6 (as claimed): an invocation writes at most one request, a POST of
\* the message bytes as application/octet-stream, and none without a
\* configuration or with a blank message.
C6_AtMostOnePost ==
    \A i \in Ids :
        /\ up[i].sent <= 1
        /\ \A k \in 1..Len(wire[i]) :
              /\ wire[i][k].method = "POST"
              /\ wire[i][k].body = up[i].message
              /\ wire[i][k].contentType = "application/octet-stream"
        /\ (up[i].pc \in InFlight) => (config.loaded /\ TrimSpace(up[i].message) # <<>>)

\* C7: a submission in flight keeps the payload and destination its own
\* sendMail call captured, whatever happens to the text area and whatever
\* other submissions do; the request it writes carries them; and a
\* submission's dialog is added to its own dialogs only.
C7_SubmissionsIndependent ==
    /\ [](\A i \in Ids : \A k \in 1..Len(wire[i]) :
            wire[i][k].body = up[i].message /\ wire[i][k].url = up[i].serverURL)
    /\ [][\A i \in Ids :
            /\ (up[i].pc = "idle" /\ up'[i].pc = "spawned") => up'[i].message = textArea
            /\ (up[i].pc \in InFlight /\ up'[i].pc \in InFlight) =>
                  (up'[i].message = up[i].message /\ up'[i].serverURL = up[i].serverURL)
            /\ (up[i].pc \in (InFlight \cup {"returned"}) /\ up'[i].pc = up[i].pc) =>
                  (up'[i] = up[i] /\ dialogs'[i] = dialogs[i])]_vars

C7_Witness ==
    \E i, j \in Ids :
        /\ wire[i] # <<>> /\ wire[j] # <<>>
        /\ wire[i][1].body # wire[j][1].body
        /\ textArea = <<>>

-----------------------------------------------------------------------------
(* Properties of the pure functions.                                       *)

Applied == ppc \in {"encoded", "decoded"}

\* an encoded-word "=?UTF-8?" letter "?" base64 "?=" with a non-empty text
IsEncodedWord(w, letters) ==
    /\ Len(w) > 12
    /\ SubSeq(w, 1, 8) = <<61, 63, 85, 84, 70, 45, 56, 63>>
    /\ w[9] \in letters
    /\ w[10] = 63
    /\ SubSeq(w, Len(w) - 1, Len(w)) = <<63, 61>>
    /\ \A k \in 11..(Len(w) - 2) :
          \/ (w[k] >= 65 /\ w[k] <= 90) \/ (w[k] >= 97 /\ w[k] <= 122)
          \/ (w[k] >= 48 /\ w[k] <= 57) \/ w[k] \in {43, 47, 61}

\* one encoded-word per line, each line after the first led by a space
IsEncodedWords(out, letters) ==
    LET lines == Split(out, <<10>>)
    IN  \A k \in 1..Len(lines) :
            IF k = 1 THEN IsEncodedWord(lines[k], letters)
            ELSE /\ lines[k] # <<>>
                 /\ lines[k][1] = 32
                 /\ IsEncodedWord(Tail(lines[k]), letters)

PlainASCII(runes) == \A k \in 1..Len(runes) : (runes[k] >= 32 /\ runes[k] <= 126) \/ runes[k] = 9

\* C5: the composed URL starts with a scheme and ends with /upload; the
\* port is appended exactly when it is non-empty, and http:// is
\* prepended exactly when host[:port] carries no scheme.
C5_URLNormalized ==
    (ppc = "composed") =>
        LET hostPort == IF cfgPort = <<>> THEN cfgHost ELSE cfgHost \o <<58>> \o cfgPort
            schemed == \/ Len(hostPort) >= 7 /\ SubSeq(hostPort, 1, 7) = SchemeHTTP
                       \/ Len(hostPort) >= 8 /\ SubSeq(hostPort, 1, 8) = SchemeHTTPS
            address == SubSeq(composed, 1, Len(composed) - 7)
        IN  /\ HasPrefix(composed, SchemeHTTP) \/ HasPrefix(composed, SchemeHTTPS)
            /\ HasSuffix(composed, UploadPath)
            /\ schemed => address = hostPort
            /\ ~schemed => address = SchemeHTTP \o hostPort

C5_Witness ==
    /\ ppc = "composed"
    /\ cfgPort # <<>>
    /\ HasPrefix(cfgHost, SchemeHTTPS)
    /\ HasPrefix(composed, SchemeHTTPS)

C9_FoldsAfterCloseMarker ==
    (Applied /\ subject # <<>>) =>
        /\ encoded # <<>>
        /\ encoded[Len(encoded)] # 10
        /\ \A k \in 1..Len(encoded) :
              (encoded[k] = 10) => (k > 2 /\ encoded[k - 2] = 63 /\ encoded[k - 1] = 61)
        /\ \A k \in 1..Len(Split(encoded, <<10>>)) : Split(encoded, <<10>>)[k] # <<>>
        /\ ~PlainASCII(subject) => IsEncodedWords(encoded, {66, 98})

C9_Witness ==
    /\ Applied
    /\ ~PlainASCII(subject)
    /\ Len(Split(encoded, <<10>>)) = 3

\* C10 (as claimed): decoding the encoded subject gives the subject back.
C10_RoundTrip ==
    (ppc = "decoded") => (decoded.ok /\ decoded.bytes = Bytes(subject))
=============================================================================
